---- MODULE Spec2Model ----
(***************************************************************************)
(* Candid Canvas: the Animator (src/lib/animator.js) driving Scenes        *)
(* (src/lib/scene.js).  The animator's fields, the armed interval timers   *)
(* and each scene's timeElapsed are the state; play, loop, pause, reset,   *)
(* addScene and the interval callback (the tick) are the actions.          *)
(* SpecThrowing adds ticks in which a callback throws, SpecResetting       *)
(* ticks in which a handler calls reset(), SpecFixedList keeps the scene   *)
(* list fixed once an operation was made, SpecScene drives one scene's     *)
(* own methods, SpecTwo runs a second animator beside the first.           *)
(* JavaScript's absent values (undefined, a deleted property)              *)
(* are the empty tuple None; a present value v is the one-tuple <<v>>.     *)
(***************************************************************************)
EXTENDS Integers, Sequences, FiniteSets, TLC

\* ------------------------------------------------------------------ bounds

\* the consumer creates and adds at most this many scenes; scene k is the
\* k-th scene added
MaxScenes == 2

\* the interval callback runs at most this many times in a behaviour
MaxTicks == 3

\* the longest list of elements of a scene
MaxElements == 4

\* the most handlers registered for one event of a scene
MaxHandlers == 2

\* ------------------------------------------------------- program constants

DEFAULT_FRAME_DURATION == 25

\* --------------------------------------------------------------- JS values

None == <<>>

Some(v) == <<v>>

\* truthiness of an absent / true / false field
Truthy(o) == o = Some(TRUE)

\* a number value
Num(n) == [t |-> "number", v |-> n]

\* a function object; v is its length (the number of declared parameters)
Fn(n) == [t |-> "function", v |-> n]

\* ToNumber: a function object converts through its source text to NaN
ToNumber(x) == IF x.t = "number" THEN [nan |-> FALSE, v |-> x.v]
               ELSE [nan |-> TRUE, v |-> 0]

\* the relational operator x < y: false as soon as either side is NaN
JsLessThan(x, y) ==
  LET a == ToNumber(x)
      b == ToNumber(y)
  IN  ~a.nan /\ ~b.nan /\ a.v < b.v

\* Array.prototype.shift: the removed head (absent on an empty array) and
\* the array that is left
Shift(arr) == IF arr = <<>> THEN [head |-> None, rest |-> <<>>]
              ELSE [head |-> Some(Head(arr)), rest |-> Tail(arr)]

\* ------------------------------------------------------------------ scenes

SceneIds == 1..MaxScenes

\* createScene({duration: d}): the durations the consumer asks for
DurationChoices == {0, 30, 50}

\* scene.duration as the animator reads it: the accessor itself, a function
\* of one declared parameter
DurationProperty(s) == Fn(1)

\* scene.elements as the animator reads it: the accessor itself, a function
\* of no declared parameter
ElementsProperty(s) == Fn(0)

VARIABLES
  duration,          \* Scene: the closure variable behind scene.duration()
  scenes,            \* Animator: the closure variable behind anim.scenes()
  timeElapsed,       \* Scene: the closure variable behind scene.timeElapsed()
  currentScene,      \* Animator: the closure variable behind anim.currentScene()
  currentlyPlaying,  \* anim._currentlyPlaying
  looping,           \* anim._looping
  playTimer,         \* anim._playTimer
  remainingScenes,   \* anim._remainingScenes
  timers,            \* the interval handles that are armed
  log,               \* the onstart()/oncomplete() firings, in order
  elementCalls,      \* the number of element callbacks invoked
  thrown,            \* how the last call or tick ended
  ticks,             \* the number of ticks that have run
  lastOp,            \* the last operation, and the state it was called in
  rendered,          \* the sum of the increases of timeElapsed made by ticks
  elements,          \* Scene: the closure variable behind scene.elements()
  events,            \* Scene: scene._events
  calls,             \* the event handlers invoked by scene 1, in order
  lastArgs,          \* the arguments of the last call on scene 1
  other              \* a second Animator, created on another canvas

vars == <<duration, scenes, timeElapsed, currentScene, currentlyPlaying, looping,
          playTimer, remainingScenes, timers, log, elementCalls, thrown,
          ticks, lastOp, rendered, elements, events, calls, lastArgs, other>>

\* the state of the Scene objects that the animator does not write
sceneVars == <<elements, events, calls, lastArgs>>

\* the handles a stored reference names
Referenced(handle) == IF handle = None THEN {} ELSE {handle[1]}

\* the program state as one record, the call's outcome cleared: the
\* animator's own fields, and of the interval table the armed handles of
\* the other animator (foreign) and the handles it still refers to (stale);
\* throwing names the callbacks that throw when called during this call
World ==
  [scenes |-> scenes, te |-> timeElapsed, cur |-> currentScene,
   playing |-> currentlyPlaying, looping |-> looping, playTimer |-> playTimer,
   rem |-> remainingScenes, timers |-> timers, log |-> log,
   elementCalls |-> elementCalls, thrown |-> "none",
   foreign |-> other.timers, stale |-> Referenced(other.playTimer),
   throwing |-> "none"]

\* ---------------------------------------------------------------- Scene

\* the scene that is driven directly, before it is added to an animator
TheScene == 1

\* that scene as one record; calls are the handler invocations of the call
SceneRecord ==
  [elements |-> elements[TheScene], events |-> events,
   duration |-> duration[TheScene], te |-> timeElapsed[TheScene],
   calls |-> <<>>]

\* Scene.prototype.addElement
AddElementCall(sc, element) == [sc EXCEPT !.elements = Append(@, element)]

\* addElements that walks its arguments from the last to the first
RECURSIVE AddElementsCallBackwards(_, _)
AddElementsCallBackwards(sc, args) ==
  IF args = <<>> THEN sc
  ELSE AddElementsCallBackwards(AddElementCall(sc, args[Len(args)]),
                                SubSeq(args, 1, Len(args) - 1))

\* Scene.prototype.addElements
RECURSIVE AddElementsCall(_, _)
AddElementsCall(sc, args) ==
  IF args = <<>> THEN sc
  ELSE AddElementsCall(AddElementCall(sc, Head(args)), Tail(args))

\* scene.clearElements
ClearElementsCall(sc) == [sc EXCEPT !.elements = <<>>]

\* scene._events[name] || []
Registered(registry) == IF registry = None THEN <<>> ELSE registry[1]

\* _addEvent that starts a new list for every handler
AddEventReplaces(sc, name, func) == [sc EXCEPT !.events[name] = Some(<<func>>)]

\* _addEvent(scene, name, func)
AddEvent(sc, name, func) ==
  [sc EXCEPT !.events[name] = Some(Append(Registered(@), func))]

\* _callEvents(scene, name): each handler is called with the scene
CallEventsOf(sc, name) ==
  IF sc.events[name] = None THEN sc
  ELSE LET handlers == sc.events[name][1]
       IN  [sc EXCEPT !.calls =
              @ \o [i \in 1..Len(handlers) |-> <<name, handlers[i], TheScene>>]]

\* _callOrAddEvents(scene, name, args)
CallOrAddEvents(sc, name, args) ==
  IF Len(args) > 0 THEN AddEvent(sc, name, args[1]) ELSE CallEventsOf(sc, name)

\* Scene.prototype.onstart
OnStartCall(sc, args) == CallOrAddEvents(sc, "onstart", args)

\* Scene.prototype.oncomplete
OnCompleteCall(sc, args) == CallOrAddEvents(sc, "oncomplete", args)

\* scene.duration(time)
DurationCall(sc, args) == IF Len(args) > 0 THEN [sc EXCEPT !.duration = args[1]] ELSE sc

\* scene.timeElapsed(time)
TimeElapsedCall(sc, args) == IF Len(args) > 0 THEN [sc EXCEPT !.te = args[1]] ELSE sc

\* ------------------------------------------------------------- Animator

\* clearInterval(handle): an absent handle clears nothing; the interval
\* table is the browser's, whoever armed the handle
ClearInterval(w, handle) ==
  [w EXCEPT !.timers = @ \ Referenced(handle),
            !.foreign = @ \ Referenced(handle)]

\* the identifier `current` in clearCurrentScene: no declaration binds it
CurrentIdentifier == None

\* anim.clearCurrentScene(): current.timeElapsed(0); currentScene = null
ClearCurrentScene(w) ==
  IF CurrentIdentifier = None
  THEN [w EXCEPT !.thrown = "ReferenceError"]
  ELSE [w EXCEPT !.te[CurrentIdentifier[1]] = 0, !.cur = None]

\* _resetAnimator(anim)
ResetAnimator(w) ==
  LET w1 == ClearInterval(w, w.playTimer)
      w2 == [w1 EXCEPT !.playing = None, !.looping = None,
                        !.playTimer = None, !.rem = None]
  IN  ClearCurrentScene(w2)

\* scene.onstart() / scene.oncomplete() with no argument, called by the
\* tick: the event's registered handlers are called; a handler may throw,
\* or call reset() on the animator
CallEvents(w, s, name) ==
  LET w1 == [w EXCEPT !.log = Append(@, <<s, name>>)]
  IN  IF w.throwing = "handler" THEN [w1 EXCEPT !.thrown = "Error"]
      ELSE IF w.throwing = "reset" THEN ResetAnimator(w1)
      ELSE w1

\* _initForPlay that always copies the scenes and loads the first one
InitForPlayFromStart(w, options) ==
  LET looping1 == IF Truthy(w.looping) THEN w.looping ELSE options.loop
      sh   == Shift(w.scenes)
      w1   == [w EXCEPT !.playing = Some(TRUE), !.looping = looping1,
                         !.rem = Some(sh.rest), !.cur = sh.head]
  IN  IF sh.head = None
      THEN [w1 EXCEPT !.thrown = "TypeError"]
      ELSE [w1 EXCEPT !.te[sh.head[1]] = 0]

\* as _initForPlay, the looping flag taken from the options of this call
InitForPlayLoopFromOptions(w, options) ==
  LET rem1 == IF w.rem # None THEN w.rem[1] ELSE w.scenes
      sh == Shift(rem1)
      cur1 == IF w.cur # None THEN w.cur ELSE sh.head
      rem2 == IF w.cur # None THEN rem1 ELSE sh.rest
      w1 == [w EXCEPT !.playing = Some(TRUE), !.looping = options.loop,
                      !.rem = Some(rem2), !.cur = cur1]
  IN  IF cur1 = None THEN [w1 EXCEPT !.thrown = "TypeError"]
      ELSE [w1 EXCEPT !.te[cur1[1]] = IF @ # 0 THEN @ ELSE 0]

\* as _initForPlay, the remaining scenes being the scenes array itself and
\* not a copy of it
InitForPlayAliasesScenes(w, options) ==
  LET looping1 == IF Truthy(w.looping) THEN w.looping ELSE options.loop
      rem1 == IF w.rem # None THEN w.rem[1] ELSE w.scenes
      sh == Shift(rem1)
      cur1 == IF w.cur # None THEN w.cur ELSE sh.head
      rem2 == IF w.cur # None THEN rem1 ELSE sh.rest
      w1 == [w EXCEPT !.playing = Some(TRUE), !.looping = looping1,
                      !.rem = Some(rem2), !.cur = cur1,
                      !.scenes = IF w.rem = None THEN rem2 ELSE @]
  IN  IF cur1 = None THEN [w1 EXCEPT !.thrown = "TypeError"]
      ELSE [w1 EXCEPT !.te[cur1[1]] = IF @ # 0 THEN @ ELSE 0]

\* as _initForPlay, a scene that has no elapsed time given one frame
InitForPlayOneFrameIn(w, options) ==
  LET looping1 == IF Truthy(w.looping) THEN w.looping ELSE options.loop
      rem1 == IF w.rem # None THEN w.rem[1] ELSE w.scenes
      sh == Shift(rem1)
      cur1 == IF w.cur # None THEN w.cur ELSE sh.head
      rem2 == IF w.cur # None THEN rem1 ELSE sh.rest
      w1 == [w EXCEPT !.playing = Some(TRUE), !.looping = looping1,
                      !.rem = Some(rem2), !.cur = cur1]
  IN  IF cur1 = None THEN [w1 EXCEPT !.thrown = "TypeError"]
      ELSE [w1 EXCEPT !.te[cur1[1]] = IF @ # 0 THEN @ ELSE DEFAULT_FRAME_DURATION]

\* _initForPlay(anim, options)
InitForPlay(w, options) ==
  LET looping1 == IF Truthy(w.looping) THEN w.looping ELSE options.loop
      rem1 == IF w.rem # None THEN w.rem[1] ELSE w.scenes
      sh   == Shift(rem1)
      cur1 == IF w.cur # None THEN w.cur ELSE sh.head
      rem2 == IF w.cur # None THEN rem1 ELSE sh.rest
      w1   == [w EXCEPT !.playing = Some(TRUE), !.looping = looping1,
                         !.rem = Some(rem2), !.cur = cur1]
  IN  IF cur1 = None
      THEN [w1 EXCEPT !.thrown = "TypeError"]
      ELSE [w1 EXCEPT !.te[cur1[1]] = IF @ # 0 THEN @ ELSE 0]

\* setInterval's return value: a handle no armed timer and no stored
\* reference uses
FreshHandle(w) ==
  LET used == w.timers \cup w.foreign \cup w.stale \cup Referenced(w.playTimer)
  IN  CHOOSE h \in 1..(Cardinality(used) + 1) :
        /\ h \notin used
        /\ \A g \in 1..(h - 1) : g \in used

\* _startFrameTimer(anim): arm the interval and store its handle
StartFrameTimer(w) ==
  LET h == FreshHandle(w)
  IN  [w EXCEPT !.timers = @ \cup {h}, !.playTimer = Some(h)]

\* play without the early return for an animator that is playing
PlayCallUnguarded(w, options) ==
  LET w1 == InitForPlay(w, options)
  IN  IF w1.thrown # "none" THEN w1 ELSE StartFrameTimer(w1)

\* Animator.prototype.play
PlayCall(w, options) ==
  IF Truthy(w.playing) THEN w
  ELSE LET w1 == InitForPlay(w, options)
       IN  IF w1.thrown # "none" THEN w1 ELSE StartFrameTimer(w1)

\* Animator.prototype.loop
LoopCall(w, options) == PlayCall(w, [options EXCEPT !.loop = Some(TRUE)])

\* pause as a toggle: called when not playing, it resumes
PauseCallToggles(w) ==
  IF Truthy(w.playing)
  THEN ClearInterval([w EXCEPT !.playing = Some(FALSE)], w.playTimer)
  ELSE PlayCall(w, [loop |-> None])

\* pause that leaves the interval armed
PauseCallFlagOnly(w) == [w EXCEPT !.playing = Some(FALSE)]

\* Animator.prototype.pause
PauseCall(w) == ClearInterval([w EXCEPT !.playing = Some(FALSE)], w.playTimer)

\* Animator.prototype.reset
ResetCall(w) == ResetAnimator(w)

\* _runCurrentScene(anim)
RunCurrentScene(w) ==
  LET s  == w.cur[1]
      w1 == IF w.te[s] < 1 THEN CallEvents(w, s, "onstart") ELSE w
      len == ElementsProperty(s).v
  IN  IF w1.thrown # "none" THEN w1
      ELSE IF len > 0 /\ w.throwing = "element"
      THEN [w1 EXCEPT !.elementCalls = @ + 1, !.thrown = "Error"]
      ELSE [w1 EXCEPT !.elementCalls = @ + len]

\* as the tick, the completion branch taking two scenes off the queue
RunOrAdvanceShiftsTwice(w) ==
  LET s  == w.cur[1]
      w1 == CallEvents(w, s, "oncomplete")
      w2 == [w1 EXCEPT !.te[s] = 0]
  IN  IF w1.thrown # "none" THEN w1
      ELSE IF w2.rem = None
      THEN [w2 EXCEPT !.thrown = "TypeError"]
      ELSE LET sh == Shift(Shift(w2.rem[1]).rest)
           IN  [w2 EXCEPT !.cur = sh.head, !.rem = Some(sh.rest)]

\* as the tick, the completion branch also starting the scene it loads
RunOrAdvanceStartsNext(w) ==
  LET s  == w.cur[1]
      w1 == CallEvents(w, s, "oncomplete")
      w2 == [w1 EXCEPT !.te[s] = 0]
  IN  IF w1.thrown # "none" THEN w1
      ELSE IF w2.rem = None
      THEN [w2 EXCEPT !.thrown = "TypeError"]
      ELSE LET sh == Shift(w2.rem[1])
               w3 == [w2 EXCEPT !.cur = sh.head, !.rem = Some(sh.rest)]
           IN  IF sh.head = None THEN w3
               ELSE CallEvents(w3, sh.head[1], "onstart")

\* as the tick, the next scene loaded before the completion handlers run
RunOrAdvanceLoadsFirst(w) ==
  LET s  == w.cur[1]
      w1 == [w EXCEPT !.te[s] = 0]
  IN  IF w1.rem = None
      THEN [w1 EXCEPT !.thrown = "TypeError"]
      ELSE LET sh == Shift(w1.rem[1])
           IN  CallEvents([w1 EXCEPT !.cur = sh.head, !.rem = Some(sh.rest)],
                          s, "oncomplete")

\* the tick, from the read of timeElapsed on: run a frame or load the next
\* scene
RunOrAdvance(w) ==
  LET s  == w.cur[1]
      te == w.te[s]
  IN  IF JsLessThan(Num(te), DurationProperty(s))
      THEN LET w1 == RunCurrentScene(w)
           IN  IF w1.thrown # "none" THEN w1
               ELSE [w1 EXCEPT !.te[s] = te + DEFAULT_FRAME_DURATION]
      ELSE LET w1 == CallEvents(w, s, "oncomplete")
               w2 == [w1 EXCEPT !.te[s] = 0]
           IN  IF w1.thrown # "none" THEN w1
               ELSE IF w2.rem = None
               THEN [w2 EXCEPT !.thrown = "TypeError"]
               ELSE LET sh == Shift(w2.rem[1])
                    IN  [w2 EXCEPT !.cur = sh.head, !.rem = Some(sh.rest)]

\* the tick's looping branch: copy the scenes again and load the first
ReloadScenes(w) ==
  LET sh == Shift(w.scenes)
      w1 == [w EXCEPT !.rem = Some(sh.rest), !.cur = sh.head]
  IN  IF sh.head = None
      THEN [w1 EXCEPT !.thrown = "TypeError"]
      ELSE [w1 EXCEPT !.te[sh.head[1]] = 0]

\* the interval callback of _startFrameTimer
TickBody(w) ==
  IF w.cur = None /\ ~Truthy(w.looping)
  THEN ResetAnimator(w)
  ELSE LET w1 == IF w.cur = None THEN ReloadScenes(w) ELSE w
       IN  IF w1.thrown # "none" THEN w1 ELSE RunOrAdvance(w1)

\* ----------------------------------------------------------------- actions

\* the program state after an operation
Becomes(w) ==
  /\ scenes' = w.scenes
  /\ timeElapsed' = w.te
  /\ currentScene' = w.cur
  /\ currentlyPlaying' = w.playing
  /\ looping' = w.looping
  /\ playTimer' = w.playTimer
  /\ remainingScenes' = w.rem
  /\ timers' = w.timers
  /\ log' = w.log
  /\ elementCalls' = w.elementCalls
  /\ thrown' = w.thrown
  /\ other' = [other EXCEPT !.timers = w.foreign]

LoopOptions == {None, Some(TRUE), Some(FALSE)}

\* how a call of play or loop is recorded: made while playing, made right
\* after a pause() that interrupted playing, made right after a reset(), or
\* any other
StartKind(name) ==
  IF Truthy(currentlyPlaying) THEN name \o "WhilePlaying"
  ELSE IF lastOp = "pause" THEN name \o "AfterPause"
  ELSE IF lastOp = "reset" THEN name \o "AfterReset"
  ELSE name

Init ==
  /\ duration = [s \in SceneIds |-> 0]
  /\ scenes = <<>>
  /\ timeElapsed = [s \in SceneIds |-> 0]
  /\ currentScene = None
  /\ currentlyPlaying = None
  /\ looping = None
  /\ playTimer = None
  /\ remainingScenes = None
  /\ timers = {}
  /\ log = <<>>
  /\ elementCalls = 0
  /\ thrown = "none"
  /\ ticks = 0
  /\ lastOp = "new"
  /\ rendered = 0
  /\ elements = [s \in SceneIds |-> <<>>]
  /\ events = [onstart |-> None, oncomplete |-> None]
  /\ calls = <<>>
  /\ lastArgs = <<>>
  /\ other = [scenes |-> <<>>, cur |-> None, playing |-> None, looping |-> None,
              playTimer |-> None, rem |-> None, timers |-> {}]

\* the elements a scene is given before it is added to an animator
NewSceneElements == <<"a", "b">>

\* scene = createScene({duration: d}); scene.addElements(a, b);
\* Animator.prototype.addScene(scene)
DoAddScene(d) ==
  /\ Len(scenes) < MaxScenes
  /\ duration' = [duration EXCEPT ![Len(scenes) + 1] = d]
  /\ elements' = [elements EXCEPT ![Len(scenes) + 1] = NewSceneElements]
  /\ Becomes([World EXCEPT !.scenes = Append(@, Len(scenes) + 1)])
  /\ UNCHANGED <<ticks, rendered, events, calls, lastArgs>>

AddSceneOf(d) == DoAddScene(d) /\ lastOp' = "addScene"

AddScene == \E d \in DurationChoices : AddSceneOf(d)

DoPlay ==
  \E loop \in LoopOptions :
    /\ Becomes(PlayCall(World, [loop |-> loop]))
    /\ UNCHANGED <<ticks, duration, rendered, sceneVars>>

Play == DoPlay /\ lastOp' = StartKind("play")

DoLoop ==
  \E loop \in LoopOptions :
    /\ Becomes(LoopCall(World, [loop |-> loop]))
    /\ UNCHANGED <<ticks, duration, rendered, sceneVars>>

Loop == DoLoop /\ lastOp' = StartKind("loop")

DoPause ==
  /\ Becomes(PauseCall(World))
  /\ UNCHANGED <<ticks, duration, rendered, sceneVars>>

\* "pause" records a pause() made while playing
Pause ==
  /\ DoPause
  /\ lastOp' = IF Truthy(currentlyPlaying) THEN "pause" ELSE "pauseNotPlaying"

DoReset ==
  /\ Becomes(ResetCall(World))
  /\ UNCHANGED <<ticks, duration, rendered, sceneVars>>

Reset == DoReset /\ lastOp' = "reset"

\* what a tick added to the scenes' elapsed times
RECURSIVE Increase(_, _, _)
Increase(before, after, n) ==
  IF n = 0 THEN 0
  ELSE (IF after[n] > before[n] THEN after[n] - before[n] ELSE 0)
       + Increase(before, after, n - 1)

\* one firing of an armed interval
DoTick ==
  /\ timers # {}
  /\ ticks < MaxTicks
  /\ Becomes(TickBody(World))
  /\ ticks' = ticks + 1
  /\ rendered' = rendered + Increase(timeElapsed, timeElapsed', MaxScenes)
  /\ UNCHANGED <<duration, sceneVars>>

Tick == DoTick /\ lastOp' = "tick"

Next == AddScene \/ Play \/ Loop \/ Pause \/ Reset \/ Tick

\* the callbacks a tick can call: the handlers of an event, the elements
ThrowingChoices == {"handler", "element"}

\* one firing of an armed interval in which a callback throws: the
\* exception ends the interval callback where it was
TickThrowing ==
  \E kind \in ThrowingChoices :
    LET w == TickBody([World EXCEPT !.throwing = kind])
    IN  /\ timers # {}
        /\ ticks < MaxTicks
        /\ w.thrown = "Error"
        /\ Becomes(w)
        /\ ticks' = ticks + 1
        /\ lastOp' = "tickThrowing"
        /\ rendered' = rendered + Increase(timeElapsed, timeElapsed', MaxScenes)
        /\ UNCHANGED <<duration, sceneVars>>

\* the operations, with callbacks that may throw
NextThrowing == Next \/ TickThrowing

SpecThrowing == Init /\ [][NextThrowing]_vars

\* one firing of an armed interval in which the event handler that is
\* called calls reset() on the animator
TickResetting ==
  LET w == TickBody([World EXCEPT !.throwing = "reset"])
  IN  /\ timers # {}
      /\ ticks < MaxTicks
      /\ Len(w.log) > Len(log)
      /\ Becomes(w)
      /\ ticks' = ticks + 1
      /\ lastOp' = "tickResetting"
      /\ rendered' = rendered + Increase(timeElapsed, timeElapsed', MaxScenes)
      /\ UNCHANGED <<duration, sceneVars>>

\* the operations, with handlers that may call reset()
NextResetting == Next \/ TickResetting

SpecResetting == Init /\ [][NextResetting]_vars

Spec == Init /\ [][Next]_vars

\* ------------------------------------------------- uninterrupted playback

\* the consumer registers the scenes, starts the animator once and lets it
\* run: no pause, no reset, no scene added after the start
NotStarted == lastOp \in {"new", "addScene"}

\* the durations of the scenarios: those of the scenes above, 100 and a
\* negative one
ScenarioDurations == DurationChoices \cup {100, -25}

AddSceneBeforeStart == NotStarted /\ \E d \in ScenarioDurations : AddSceneOf(d)

StartPlay == NotStarted /\ Play

StartLoop == NotStarted /\ Loop

NextPlayback == AddSceneBeforeStart \/ StartPlay \/ StartLoop \/ Tick

SpecPlayback == Init /\ [][NextPlayback]_vars

\* ---------------------------------------------- playback with pauses only

\* play, loop, pause and ticks in any order on a scene list registered
\* before the first start; reset() is never called
NextNoReset == AddSceneBeforeStart \/ Play \/ Loop \/ Pause \/ Tick

SpecNoReset == Init /\ [][NextNoReset]_vars

\* ------------------------------------------------- a fixed list of scenes

\* every operation of the animator on a scene list that was registered
\* before the first of them
AddSceneFirst == NotStarted /\ AddScene

NextFixedList == AddSceneFirst \/ Play \/ Loop \/ Pause \/ Reset \/ Tick

SpecFixedList == Init /\ [][NextFixedList]_vars

\* ---------------------------------------------------------- two animators

\* the second animator's state as one record: its own fields, the scenes'
\* elapsed times, and of the interval table the armed handles of the first
\* animator (foreign) and the handle it still refers to (stale)
OtherWorld ==
  [scenes |-> other.scenes, te |-> timeElapsed, cur |-> other.cur,
   playing |-> other.playing, looping |-> other.looping,
   playTimer |-> other.playTimer, rem |-> other.rem, timers |-> other.timers,
   log |-> log, elementCalls |-> elementCalls, thrown |-> "none",
   foreign |-> timers, stale |-> Referenced(playTimer), throwing |-> "none"]

\* as OtherBecomes, the interval handle kept in one variable that all
\* animators share
OtherBecomesSharedHandle(w) ==
  /\ other' = [scenes |-> w.scenes, cur |-> w.cur, playing |-> w.playing,
               looping |-> w.looping, playTimer |-> w.playTimer,
               rem |-> w.rem, timers |-> w.timers]
  /\ playTimer' = w.playTimer
  /\ timeElapsed' = w.te
  /\ timers' = w.foreign
  /\ log' = w.log
  /\ elementCalls' = w.elementCalls
  /\ thrown' = w.thrown
  /\ lastOp' = "other"
  /\ UNCHANGED <<scenes, currentScene, currentlyPlaying, looping,
                 remainingScenes, sceneVars>>

\* the program state after an operation of the second animator: what the
\* operation wrote goes to that animator's fields and closure variables
OtherBecomes(w) ==
  /\ other' = [scenes |-> w.scenes, cur |-> w.cur, playing |-> w.playing,
               looping |-> w.looping, playTimer |-> w.playTimer,
               rem |-> w.rem, timers |-> w.timers]
  /\ timeElapsed' = w.te
  /\ timers' = w.foreign
  /\ log' = w.log
  /\ elementCalls' = w.elementCalls
  /\ thrown' = w.thrown
  /\ lastOp' = "other"
  /\ UNCHANGED <<scenes, currentScene, currentlyPlaying, looping, playTimer,
                 remainingScenes, sceneVars>>

\* the scene of the second animator; the first animator is given scene 1,
\* so that the scene lists are disjoint
OtherScene == 2

\* the durations of the two scenes
TwoDurations == {50}

FirstAddScene ==
  \E d \in TwoDurations : scenes = <<>> /\ DoAddScene(d) /\ lastOp' = "first"

FirstPlay == DoPlay /\ lastOp' = "first"

FirstLoop == DoLoop /\ lastOp' = "first"

FirstPause == DoPause /\ lastOp' = "first"

FirstReset == DoReset /\ lastOp' = "first"

FirstTick == DoTick /\ lastOp' = "first"

OtherAddScene ==
  \E d \in TwoDurations :
    /\ other.scenes = <<>>
    /\ duration' = [duration EXCEPT ![OtherScene] = d]
    /\ OtherBecomes([OtherWorld EXCEPT !.scenes = Append(@, OtherScene)])
    /\ UNCHANGED <<ticks, rendered>>

OtherPlay ==
  \E loop \in LoopOptions :
    /\ OtherBecomes(PlayCall(OtherWorld, [loop |-> loop]))
    /\ UNCHANGED <<ticks, duration, rendered>>

OtherLoop ==
  /\ OtherBecomes(LoopCall(OtherWorld, [loop |-> None]))
  /\ UNCHANGED <<ticks, duration, rendered>>

OtherPause ==
  /\ OtherBecomes(PauseCall(OtherWorld))
  /\ UNCHANGED <<ticks, duration, rendered>>

OtherReset ==
  /\ OtherBecomes(ResetCall(OtherWorld))
  /\ UNCHANGED <<ticks, duration, rendered>>

OtherTick ==
  /\ other.timers # {}
  /\ ticks < MaxTicks
  /\ OtherBecomes(TickBody(OtherWorld))
  /\ ticks' = ticks + 1
  /\ rendered' = rendered + Increase(timeElapsed, timeElapsed', MaxScenes)
  /\ UNCHANGED duration

NextTwo ==
  \/ FirstAddScene \/ FirstPlay \/ FirstLoop \/ FirstPause \/ FirstReset
  \/ FirstTick
  \/ OtherAddScene \/ OtherPlay \/ OtherLoop \/ OtherPause \/ OtherReset
  \/ OtherTick

SpecTwo == Init /\ [][NextTwo]_vars

\* ------------------------------------------------------ one scene alone

\* the scene after a call on it
SceneBecomes(sc, name, args) ==
  /\ elements' = [elements EXCEPT ![TheScene] = sc.elements]
  /\ events' = sc.events
  /\ duration' = [duration EXCEPT ![TheScene] = sc.duration]
  /\ timeElapsed' = [timeElapsed EXCEPT ![TheScene] = sc.te]
  /\ calls' = sc.calls
  /\ lastOp' = name
  /\ lastArgs' = args
  /\ UNCHANGED <<scenes, currentScene, currentlyPlaying, looping, playTimer,
                 remainingScenes, timers, log, elementCalls, thrown, ticks,
                 rendered, other>>

\* the elements added one at a time
ElementPool == {"c"}
HandlerPool == {"f", "g"}

\* the argument lists of addElements
ElementLists == {<<>>, <<"a", "b">>, <<"a", "b", "c">>}

\* the argument lists of onstart and oncomplete
HandlerLists == {<<>>} \cup {<<h>> : h \in HandlerPool}

\* the argument lists of timeElapsed
TimeLists == {<<>>, <<0>>, <<DEFAULT_FRAME_DURATION>>}

SceneAddElement ==
  \E e \in ElementPool :
    /\ Len(elements[TheScene]) < MaxElements
    /\ SceneBecomes(AddElementCall(SceneRecord, e), "addElement", <<e>>)

SceneAddElements ==
  \E args \in ElementLists :
    /\ Len(elements[TheScene]) + Len(args) <= MaxElements
    /\ SceneBecomes(AddElementsCall(SceneRecord, args), "addElements", args)

SceneClearElements ==
  SceneBecomes(ClearElementsCall(SceneRecord), "clearElements", <<>>)

SceneOnStart ==
  \E args \in HandlerLists :
    /\ args # <<>> => Len(Registered(events.onstart)) < MaxHandlers
    /\ SceneBecomes(OnStartCall(SceneRecord, args), "onstart", args)

SceneOnComplete ==
  \E args \in HandlerLists :
    /\ args # <<>> => Len(Registered(events.oncomplete)) < MaxHandlers
    /\ SceneBecomes(OnCompleteCall(SceneRecord, args), "oncomplete", args)

SceneDuration ==
  \E args \in {<<>>} \cup {<<d>> : d \in DurationChoices} :
    SceneBecomes(DurationCall(SceneRecord, args), "duration", args)

SceneTimeElapsed ==
  \E args \in TimeLists :
    SceneBecomes(TimeElapsedCall(SceneRecord, args), "timeElapsed", args)

NextScene ==
  \/ SceneAddElement
  \/ SceneAddElements
  \/ SceneClearElements
  \/ SceneOnStart
  \/ SceneOnComplete
  \/ SceneDuration
  \/ SceneTimeElapsed

SpecScene == Init /\ [][NextScene]_vars

\* ------------------------------------------------------------ properties

Position == <<currentScene, remainingScenes, timeElapsed>>

Program == <<duration, scenes, timeElapsed, currentScene, currentlyPlaying, looping,
             playTimer, remainingScenes, timers>>

\* the handler firings of k complete traversals of the scene list sc
RECURSIVE Traversals(_, _)
Traversals(sc, k) ==
  IF k = 0 THEN <<>>
  ELSE LET one[i \in 0..Len(sc)] ==
             IF i = 0 THEN <<>>
             ELSE one[i - 1] \o << <<sc[i], "onstart">>, <<sc[i], "oncomplete">> >>
       IN  one[Len(sc)] \o Traversals(sc, k - 1)

IsPrefix(a, b) == Len(a) <= Len(b) /\ a = SubSeq(b, 1, Len(a))

\* the sum of the durations of the scenes of sc
RECURSIVE TotalDuration(_)
TotalDuration(sc) ==
  IF sc = <<>> THEN 0 ELSE duration[Head(sc)] + TotalDuration(Tail(sc))

\* the number of completed traversals: the firings of the last scene's
\* completion handlers
CompletedTraversals ==
  Cardinality({i \in 1..Len(log) :
                 log[i] = <<scenes[Len(scenes)], "oncomplete">>})

\* every scene of the list was created with a positive duration
PositiveDurations == \A i \in 1..Len(scenes) : duration[scenes[i]] > 0

\* C1: after reset(), called in any state, the call has returned normally
\* and the scheduler is as freshly constructed: currentScene absent,
\* isLooping and isPlaying not set, remainingScenes and the tick handle
\* cleared, no tick source armed, every scene's timeElapsed 0.
C1_ResetRestoresFreshState ==
  lastOp = "reset" =>
    /\ thrown = "none"
    /\ currentScene = None
    /\ looping = None
    /\ currentlyPlaying = None
    /\ remainingScenes = None
    /\ playTimer = None
    /\ timers = {}
    /\ \A s \in SceneIds : timeElapsed[s] = 0

\* C2: a play() that follows a reset() starts from the beginning:
\* currentScene is the first scene of the list with timeElapsed 0 and
\* remainingScenes is the rest of the list.
C2_PlayAfterResetStartsOver ==
  (lastOp \in {"playAfterReset", "loopAfterReset"} /\ scenes # <<>>) =>
    /\ currentScene = Some(Head(scenes))
    /\ timeElapsed[Head(scenes)] = 0
    /\ remainingScenes = Some(Tail(scenes))

C4_PauseFrame ==
  [][/\ lastOp' = "pause" =>
          /\ timers' = {}
          /\ currentlyPlaying' = Some(FALSE)
          /\ Position' = Position
          /\ looping' = looping
          /\ scenes' = scenes
          /\ thrown' = "none"
     /\ currentlyPlaying = Some(FALSE) => lastOp' # "tick"]_vars

C4_Witness ==
  /\ lastOp = "pause"
  /\ currentScene # None
  /\ ticks > 0
  /\ timers = {}
  /\ currentlyPlaying = Some(FALSE)

\* C5: play(options) or loop() called while already playing changes
\* nothing: no second tick source, and currentScene, remainingScenes,
\* timeElapsed, the tick handle and isLooping keep their values.
C5_StartWhilePlayingIsNoOp ==
  [][lastOp' \in {"playWhilePlaying", "loopWhilePlaying"} =>
       /\ Program' = Program
       /\ thrown' = "none"]_vars

C5_Witness ==
  /\ lastOp = "loopWhilePlaying"
  /\ ~Truthy(looping)
  /\ Cardinality(timers) = 1
  /\ currentScene # None

\* C6: at most one tick source is armed, and whenever isPlaying is true
\* exactly one tick source is armed and the tick handle is present.
C6_OneTickSource ==
  /\ Cardinality(timers) <= 1
  /\ Truthy(currentlyPlaying) => (Cardinality(timers) = 1 /\ playTimer # None)

\* C7: a scene's completion handlers fire once per traversal, after the
\* scene's start handlers have fired in that traversal and before the
\* next start: every oncomplete firing (here: of a scene of positive
\* duration) directly follows the onstart firing of the same scene.
C7_CompleteFollowsStart ==
  \A i \in 1..Len(log) :
    (log[i][2] = "oncomplete" /\ duration[log[i][1]] > 0) =>
      (i > 1 /\ log[i - 1] = <<log[i][1], "onstart">>)

\* C8: under looping play of S1..Sn (scenes of positive duration) the
\* handler firings are S1.start, S1.complete, S2.start, S2.complete, ...,
\* Sn.complete, S1.start, ...
C8_LoopOrder ==
  (Truthy(looping) /\ scenes # <<>> /\ PositiveDurations) =>
    IsPrefix(log, Traversals(scenes, MaxTicks + 1))

\* C9: non-looping play of a non-empty scene list (scenes of positive
\* duration), left to run, ends with every scene started and completed
\* exactly once in list order, isPlaying not true, currentScene absent and
\* no tick source armed.
C9_PlaysOnceThenIdle ==
  (ticks > 0 /\ timers = {} /\ scenes # <<>> /\ PositiveDurations) =>
    /\ log = Traversals(scenes, 1)
    /\ ~Truthy(currentlyPlaying)
    /\ currentScene = None

\* C10: with looping on and scenes of positive duration, of total D, after
\* k*D time units of continuous play (k*D / 25 ticks) exactly k traversals
\* of the scene list are complete.
C10_TraversalsPerDuration ==
  (/\ Truthy(looping)
   /\ scenes # <<>>
   /\ PositiveDurations
   /\ (ticks * DEFAULT_FRAME_DURATION) % TotalDuration(scenes) = 0) =>
    CompletedTraversals = (ticks * DEFAULT_FRAME_DURATION) \div TotalDuration(scenes)

\* C11: over play, pause and play with no reset, the elapsed time that
\* ticks add to the scenes (of positive duration) is the tick period times
\* the number of ticks that ran; paused time adds nothing.
C11_ElapsedIsTicksTimesPeriod ==
  PositiveDurations => rendered = DEFAULT_FRAME_DURATION * ticks

\* the number of firings of the handlers name of scene s
Firings(s, name) == Cardinality({i \in 1..Len(log) : log[i] = <<s, name>>})

\* C12: non-looping play of one scene of duration 100: after 4 ticks the
\* scene has completed, its completion handlers fired exactly once, and
\* currentScene is absent; the next tick, the fifth, performs the full
\* reset, so the tick source is disarmed by the fifth tick and no other.
C12_SceneOf100CompletesAfterFourTicks ==
  (scenes = <<1>> /\ duration[1] = 100 /\ ~Truthy(looping)) =>
    /\ ticks = 4 => (Firings(1, "oncomplete") = 1 /\ currentScene = None)
    /\ (ticks > 0 /\ timers = {}) => ticks = 5

\* C13: loop() called when not playing leaves isLooping true, and isLooping,
\* once true, stays true through pause(), play(), play({loop: false}) and
\* ticks: only reset() clears it.
C13_LoopingIsSticky ==
  [][/\ lastOp' \in {"loop", "loopAfterPause", "loopAfterReset"} => Truthy(looping')
     /\ (Truthy(looping) /\ lastOp' # "reset") => Truthy(looping')
     /\ (Truthy(looping) /\ lastOp' = "reset") => ~Truthy(looping')]_vars

C13_Witness ==
  /\ lastOp = "playAfterPause"
  /\ Truthy(looping)
  /\ ticks > 0

\* C14: a tick that finds the current scene's timeElapsed below its
\* duration invokes every element callback of the scene once and then
\* adds 25 to the scene's timeElapsed.
C14_RenderingTickAdvances ==
  [][(/\ lastOp' = "tick"
      /\ currentScene # None
      /\ timeElapsed[currentScene[1]] < duration[currentScene[1]]) =>
       /\ timeElapsed'[currentScene[1]]
            = timeElapsed[currentScene[1]] + DEFAULT_FRAME_DURATION
       /\ elementCalls' = elementCalls + Len(elements[currentScene[1]])]_vars

\* C15: whatever the interleaving of pause and play, a scene of positive
\* duration fires its start handlers on the first tick of a traversal and
\* once per traversal: the first tick fires the first scene's start
\* handlers, and two start firings of a scene have a completion of that
\* scene between them.
C15_StartOncePerTraversal ==
  (scenes # <<>> /\ PositiveDurations) =>
    /\ ticks > 0 => (log # <<>> /\ log[1] = <<Head(scenes), "onstart">>)
    /\ \A i, j \in 1..Len(log) :
         (i < j /\ log[i][2] = "onstart" /\ log[j] = log[i]) =>
           \E k \in (i + 1)..(j - 1) : log[k] = <<log[i][1], "oncomplete">>

\* C16: pause() called when not playing and play() called when playing
\* raise nothing and leave currentScene, remainingScenes, every
\* timeElapsed, isLooping and the armed tick sources as they were.
C16_RedundantCallsAreHarmless ==
  [][lastOp' \in {"pauseNotPlaying", "playWhilePlaying"} =>
       /\ thrown' = "none"
       /\ Position' = Position
       /\ looping' = looping
       /\ timers' = timers]_vars

C16_Witness ==
  /\ lastOp = "pauseNotPlaying"
  /\ currentlyPlaying = Some(FALSE)
  /\ currentScene # None
  /\ remainingScenes # None

\* C17: a tick in which an event handler or an element callback throws
\* ends with the bookkeeping as it was when the callback was called:
\* currentScene, remainingScenes and timeElapsed as before the tick (as
\* just reloaded, when the tick began by reloading the scene list), no
\* further element called, isPlaying still true and the interval still
\* armed under the same handle.
C17_ThrowingCallbackAbortsTick ==
  [][lastOp' = "tickThrowing" =>
       /\ thrown' = "Error"
       /\ IF currentScene # None
          THEN Position' = Position
          ELSE /\ currentScene' = Some(Head(scenes))
               /\ remainingScenes' = Some(Tail(scenes))
               /\ timeElapsed' = [timeElapsed EXCEPT ![Head(scenes)] = 0]
       /\ elementCalls' = elementCalls
       /\ Truthy(currentlyPlaying')
       /\ timers' = timers /\ timers' # {}
       /\ playTimer' = playTimer]_vars

C17_Witness ==
  /\ lastOp = "tickThrowing"
  /\ thrown = "Error"
  /\ currentScene # None
  /\ remainingScenes = Some(<<2>>)
  /\ log # <<>> /\ log[Len(log)] = <<1, "oncomplete">>
  /\ timers # {}

\* C18: addElements(a, b, c) appends its arguments, in their order, after
\* the elements the scene already has, as three addElement calls would;
\* clearElements() leaves the scene with no element and its duration, its
\* timeElapsed and both handler registries as they were.
C18_AddElementsAppendsClearEmpties ==
  [][/\ lastOp' = "addElements" =>
          elements'[TheScene] = elements[TheScene] \o lastArgs'
     /\ lastOp' = "clearElements" =>
          /\ elements'[TheScene] = <<>>
          /\ duration' = duration
          /\ timeElapsed' = timeElapsed
          /\ events' = events]_vars

C18_Witness ==
  /\ lastOp = "addElements"
  /\ lastArgs = <<"a", "b", "c">>
  /\ elements[TheScene] = <<"c", "a", "b", "c">>
  /\ events.onstart # None
  /\ duration[TheScene] # 0

\* the other event of a scene
OtherEvent(name) == IF name = "onstart" THEN "oncomplete" ELSE "onstart"

\* C19: onstart(cb) and oncomplete(cb) append cb to the handlers of their
\* event, replacing and invoking nothing; onstart() and oncomplete() invoke
\* the handlers of their event once each, in the order of registration,
\* with the scene as argument, invoke no handler of the other event and
\* leave both registries as they were.
C19_HandlersRegisterThenFireInOrder ==
  [][lastOp' \in {"onstart", "oncomplete"} =>
       IF lastArgs' # <<>>
       THEN /\ events'[lastOp'] = Some(Registered(events[lastOp']) \o lastArgs')
            /\ events'[OtherEvent(lastOp')] = events[OtherEvent(lastOp')]
            /\ calls' = <<>>
       ELSE /\ calls' = [i \in 1..Len(Registered(events[lastOp'])) |->
                          <<lastOp', Registered(events[lastOp'])[i], TheScene>>]
            /\ events' = events]_vars

C19_Witness ==
  /\ lastOp = "oncomplete"
  /\ lastArgs = <<>>
  /\ calls = << <<"oncomplete", "g", TheScene>>, <<"oncomplete", "f", TheScene>> >>
  /\ events.onstart # None

\* the scenes of the list sc
Range(sc) == {sc[i] : i \in 1..Len(sc)}

\* C20: two animators with disjoint scene lists share no mutable state:
\* an operation of one (addScene, play, loop, pause, reset, a tick) leaves
\* the other's scenes, currentScene, remainingScenes, isPlaying, isLooping
\* and interval handle as they were, its interval armed or not as before,
\* and the elapsed times of its scenes unchanged.
C20_AnimatorsAreIndependent ==
  [][/\ lastOp' = "other" =>
          /\ <<scenes, currentScene, remainingScenes, currentlyPlaying,
                looping, playTimer, timers>>'
               = <<scenes, currentScene, remainingScenes, currentlyPlaying,
                   looping, playTimer, timers>>
          /\ \A s \in Range(scenes) : timeElapsed'[s] = timeElapsed[s]
     /\ lastOp' = "first" =>
          /\ other' = other
          /\ \A s \in Range(other.scenes) : timeElapsed'[s] = timeElapsed[s]]_vars

C20_Witness ==
  /\ lastOp = "other"
  /\ other.playing = Some(FALSE)
  /\ other.playTimer # None
  /\ other.cur = Some(OtherScene)
  /\ Truthy(currentlyPlaying)
  /\ playTimer # None
  /\ timers = Referenced(playTimer)
  /\ playTimer # other.playTimer
  /\ ticks = MaxTicks

\* C21: a tick that finds currentScene absent while isLooping is true
\* copies scenes into remainingScenes, makes the first scene (of positive
\* duration) currentScene and renders its first frame in that tick: the
\* scene's start handlers fire, and the interval stays armed.
C21_LoopReloadRendersFirstFrame ==
  [][(/\ lastOp' = "tick"
      /\ currentScene = None
      /\ Truthy(looping)
      /\ scenes # <<>>
      /\ duration[Head(scenes)] > 0) =>
       /\ remainingScenes' = Some(Tail(scenes))
       /\ currentScene' = Some(Head(scenes))
       /\ log' = Append(log, <<Head(scenes), "onstart">>)
       /\ timers' = timers]_vars

\* C22: a tick that finds the current scene's timeElapsed at or above its
\* duration fires that scene's completion handlers and nothing else, sets
\* its timeElapsed to 0 and makes the head of remainingScenes the current
\* scene (none when the queue was empty); no element callback is invoked.
C22_CompletionTick ==
  [][(/\ lastOp' = "tick"
      /\ currentScene # None
      /\ timeElapsed[currentScene[1]] >= duration[currentScene[1]]) =>
       /\ log' = Append(log, <<currentScene[1], "oncomplete">>)
       /\ timeElapsed' = [timeElapsed EXCEPT ![currentScene[1]] = 0]
       /\ remainingScenes # None
       /\ currentScene' = Shift(remainingScenes[1]).head
       /\ remainingScenes' = Some(Shift(remainingScenes[1]).rest)
       /\ elementCalls' = elementCalls
       /\ thrown' = "none"]_vars

C22_Witness ==
  /\ lastOp = "tick"
  /\ scenes = <<1, 2>>
  /\ duration[1] = 0
  /\ log = << <<1, "oncomplete">> >>
  /\ currentScene = Some(2)
  /\ remainingScenes = Some(<<>>)

\* C23: a scene whose duration is 0 or less completes on its first tick as
\* current scene, with no element callback invoked; and no tick fires more
\* than one event.
C23_DegenerateSceneCompletesAtOnce ==
  [][lastOp' = "tick" =>
       /\ Len(log') <= Len(log) + 1
       /\ (currentScene # None /\ duration[currentScene[1]] <= 0) =>
            /\ log' = Append(log, <<currentScene[1], "oncomplete">>)
            /\ elementCalls' = elementCalls
            /\ currentScene' # currentScene]_vars

C23_Witness ==
  /\ lastOp = "tick"
  /\ scenes = <<1, 2>>
  /\ duration[1] = -25
  /\ log = << <<1, "oncomplete">> >>
  /\ currentScene = Some(2)

\* b is a in the same order with scenes taken off its front
IsSuffix(b, a) ==
  Len(b) <= Len(a) /\ b = SubSeq(a, Len(a) - Len(b) + 1, Len(a))

\* C24: for a registered scene list, play, loop, pause, reset and ticks
\* leave scenes as it is; currentScene is absent or one of scenes, and
\* remainingScenes, when present, is scenes with its front cut off.
C24_SceneListIsReadOnly ==
  [][/\ lastOp' # "addScene" => scenes' = scenes
     /\ currentScene' # None => currentScene'[1] \in Range(scenes')
     /\ remainingScenes' # None => IsSuffix(remainingScenes'[1], scenes')]_vars

C24_Witness ==
  /\ lastOp = "playAfterReset"
  /\ scenes = <<1, 2>>
  /\ currentScene = Some(2)
  /\ remainingScenes = Some(<<1, 2>>)

\* C25: a scene's timeElapsed is never negative, is 0 while the scene is
\* not the current scene, and is 0 when the scene becomes the current
\* scene, so at the first tick of each of its traversals.
C25_ElapsedStartsAtZero ==
  [][/\ \A s \in SceneIds :
          /\ timeElapsed'[s] >= 0
          /\ currentScene' # Some(s) => timeElapsed'[s] = 0
     /\ (currentScene' # currentScene /\ currentScene' # None) =>
          timeElapsed'[currentScene'[1]] = 0]_vars

C25_Witness ==
  /\ lastOp = "tick"
  /\ Truthy(looping)
  /\ ticks = 3
  /\ scenes = <<1, 2>>
  /\ Firings(1, "oncomplete") = 2
  /\ currentScene = Some(2)
  /\ timeElapsed[2] = 0

\* C26: the interval handle is stored exactly when isPlaying is true: none
\* is stored after pause() or reset(), one is stored after play().
C26_HandleIffPlaying ==
  playTimer # None <=> Truthy(currentlyPlaying)

\* C27: a play() or loop() that follows a pause() made with currentScene
\* absent and the queue drained returns normally and arms the interval:
\* the animator is not left with isPlaying true and no interval.
C27_ResumeWhenDrained ==
  (lastOp \in {"playAfterPause", "loopAfterPause"} /\ scenes # <<>>) =>
    /\ thrown = "none"
    /\ Cardinality(timers) = 1

\* C28: play() or loop() on an animator with no scene does not leave it
\* with isPlaying true and no interval armed.
C28_PlayOnEmptyList ==
  (lastOp \in {"play", "loop"} /\ scenes = <<>>) =>
    ~(Truthy(currentlyPlaying) /\ timers = {})

\* C29: a tick in which a completion handler (or an element callback)
\* calls reset() on the animator ends without error and leaves the
\* animator idle: currentScene absent, remainingScenes cleared, every
\* timeElapsed 0, no interval armed, isPlaying not set.
C29_ResetInsideTick ==
  lastOp = "tickResetting" =>
    /\ thrown = "none"
    /\ currentScene = None
    /\ remainingScenes = None
    /\ \A s \in SceneIds : timeElapsed[s] = 0
    /\ timers = {}
    /\ ~Truthy(currentlyPlaying)

\* the least number of frames that cover the duration d
FramesFor(d) ==
  (d + DEFAULT_FRAME_DURATION - 1) \div DEFAULT_FRAME_DURATION

\* the time rendered in the traversals that the firings of lg completed
RECURSIVE RenderedInCompleted(_)
RenderedInCompleted(lg) ==
  IF lg = <<>> THEN 0
  ELSE (IF Head(lg)[2] = "oncomplete"
        THEN DEFAULT_FRAME_DURATION * FramesFor(duration[Head(lg)[1]])
        ELSE 0)
       + RenderedInCompleted(Tail(lg))

\* C30: with scenes of positive duration d, every timeElapsed is a
\* multiple of 25 below d + 25, and a scene gets exactly ceil(d / 25)
\* rendering ticks per traversal: the time rendered so far is that of the
\* completed traversals plus the elapsed time of the current scene.
C30_FramesPerTraversal ==
  PositiveDurations =>
    /\ \A i \in 1..Len(scenes) :
         /\ timeElapsed[scenes[i]] % DEFAULT_FRAME_DURATION = 0
         /\ timeElapsed[scenes[i]] < duration[scenes[i]] + DEFAULT_FRAME_DURATION
    /\ rendered = RenderedInCompleted(log)
                    + (IF currentScene = None THEN 0
                       ELSE timeElapsed[currentScene[1]])

====
